---- MODULE Spec2Model ----
(***************************************************************************)
(* Model of app/tts_handler.py: the voice-string parser, the rate/pitch    *)
(* normaliser, the generate_speech pipeline run under asyncio.run, the     *)
(* persistence step _save_audio_file and the reaper _delayed_cleanup.      *)
(*                                                                         *)
(* Python strings are sequences of one-character strings.  An optional     *)
(* integer (None or an int) is the empty set or a singleton.  A temp path  *)
(* is a record [n, ext]; NoPath stands for Python's None.                  *)
(***************************************************************************)
EXTENDS Integers, Sequences, FiniteSets, TLC

VARIABLES
    TEMP_FILES,     \* the module's set of tracked temp paths
    disk,           \* temp paths that exist on disk
    output_dir,     \* files written under DEFAULT_OUTPUT_DIR
    voice_mapping,  \* alias table loaded at import: set of <<alias, canonical>>
    pc,             \* where the running call stands
    req,            \* arguments and locals of the current/last _generate_audio
    tasks,          \* tasks created on the event loop and not yet run
    result,         \* what the last generate_speech returned
    trace,          \* external steps of the current request, in order
    nreq,           \* generate_speech calls started so far
    pv,             \* parse_voice_string: argument and returned triple
    sv,             \* _save_audio_file: arguments and returned value
    cl              \* _delayed_cleanup: arguments and loop locals

vars == <<TEMP_FILES, disk, output_dir, voice_mapping, pc, req, tasks, result,
          trace, nreq, pv, sv, cl>>

-----------------------------------------------------------------------------
(* Characters and strings *)

Lower == {"a","b","c","d","e","f","g","h","i","j","k","l","m",
          "n","o","p","q","r","s","t","u","v","w","x","y","z"}
Upper == {"A","B","C","D","E","F","G","H","I","J","K","L","M",
          "N","O","P","Q","R","S","T","U","V","W","X","Y","Z"}
DigitChar == <<"0","1","2","3","4","5","6","7","8","9">>
DigitSet == {DigitChar[i] : i \in 1..10}

IsAlpha(c) == c \in Lower \cup Upper
IsAlnum(c) == c \in Lower \cup Upper \cup DigitSet

DigitValue(c) == CHOOSE i \in 0..9 : DigitChar[i + 1] = c

\* the value of a nonempty run of decimal digits
RECURSIVE DecimalValue(_)
DecimalValue(ds) ==
    IF Len(ds) = 0 THEN 0
    ELSE 10 * DecimalValue(SubSeq(ds, 1, Len(ds) - 1)) + DigitValue(ds[Len(ds)])

\* int("+12") / int("-12"): s is a sign followed by digits
IntOf(s) ==
    LET mag == DecimalValue(SubSeq(s, 2, Len(s)))
    IN  IF s[1] = "-" THEN 0 - mag ELSE mag

\* str(n) for n >= 0
RECURSIVE DecimalText(_)
DecimalText(n) ==
    IF n < 10 THEN <<DigitChar[n + 1]>>
    ELSE DecimalText(n \div 10) \o <<DigitChar[(n % 10) + 1]>>

\* f"{'+' if x >= 0 else ''}{x}"
SignedText(x) ==
    IF x >= 0 THEN <<"+">> \o DecimalText(x) ELSE <<"-">> \o DecimalText(0 - x)

\* the index of the last character of the longest run of characters that
\* satisfy the class starting at i (i - 1 when the run is empty)
RECURSIVE AlnumRunEnd(_, _)
AlnumRunEnd(s, i) ==
    IF i <= Len(s) /\ IsAlnum(s[i]) THEN AlnumRunEnd(s, i + 1) ELSE i - 1

RECURSIVE DigitRunEnd(_, _)
DigitRunEnd(s, i) ==
    IF i <= Len(s) /\ s[i] \in DigitSet THEN DigitRunEnd(s, i + 1) ELSE i - 1

\* voice.endswith('+s')
EndsWithSaveFlag(voice) ==
    Len(voice) >= 2 /\ voice[Len(voice) - 1] = "+" /\ voice[Len(voice)] = "s"

-----------------------------------------------------------------------------
(* parse_voice_string *)

MinDelta == -99
MaxDelta == 99

\* group 1 of the pattern, [a-zA-Z]{2}-[A-Z]{2}-[a-zA-Z0-9]+ anchored at the
\* start: the index where it ends, 0 when the string does not match
BaseEnd(s) ==
    IF /\ Len(s) >= 7
       /\ IsAlpha(s[1]) /\ IsAlpha(s[2]) /\ s[3] = "-"
       /\ s[4] \in Upper /\ s[5] \in Upper /\ s[6] = "-"
       /\ IsAlnum(s[7])
    THEN AlnumRunEnd(s, 7)
    ELSE 0

\* an optional group (?:([+-]\d+)[letters])? tried at index i: where the
\* captured number ends, 0 when the group matches empty
DeltaEnd(s, i, letters) ==
    IF i <= Len(s) /\ s[i] \in {"+", "-"}
    THEN LET d == DigitRunEnd(s, i + 1)
         IN  IF d >= i + 1 /\ d + 1 <= Len(s) /\ s[d + 1] \in letters
             THEN d ELSE 0
    ELSE 0

\* variant: an out-of-range delta is clamped to the nearest bound
Validated_clamped(n) ==
    IF n < MinDelta THEN {MinDelta} ELSE IF n > MaxDelta THEN {MaxDelta} ELSE {n}
\* the range check applied to a captured delta: None when out of bounds
Validated(n) == IF MinDelta <= n /\ n <= MaxDelta THEN {n} ELSE {}

parse_voice_string(voice_string) ==
    LET b  == BaseEnd(voice_string)
        re == DeltaEnd(voice_string, b + 1, {"r", "R"})
        pstart == IF re = 0 THEN b + 1 ELSE re + 2
        pe == DeltaEnd(voice_string, pstart, {"p", "P"})
    IN  IF b = 0
        THEN [base_voice |-> voice_string, rate_change |-> {}, pitch_change |-> {}]
        ELSE [base_voice   |-> SubSeq(voice_string, 1, b),
              rate_change  |-> IF re = 0 THEN {}
                               ELSE Validated(IntOf(SubSeq(voice_string, b + 1, re))),
              pitch_change |-> IF pe = 0 THEN {}
                               ELSE Validated(IntOf(SubSeq(voice_string, pstart, pe)))]

-----------------------------------------------------------------------------
(* speed_to_rate.  The speed multiplier is carried in hundredths (150 is   *)
(* 1.5): for such values (speed - 1) * 100 is within rounding error of the *)
(* integer speed - 100, which "+.0f" prints with its sign.                 *)

speed_to_rate(speed) == SignedText(speed - 100) \o <<"%">>

-----------------------------------------------------------------------------
(* Inputs of the requests *)

MaxRequests == 2

NoPath == [n |-> 0, ext |-> "none"]

\* sample alias table of the module's example (voice_mappings.json)
FableAlias == <<"f","a","b","l","e">>
SoniaVoice == <<"e","n","-","G","B","-","S","o","n","i","a","N","e","u","r","a","l","-","5","r","+","1","0","p">>
VoiceMappings == { {}, {<<FableAlias, SoniaVoice>>} }

\* voice arguments of generate_speech: canonical strings and the alias,
\* some with the save flag appended
AnaVoice == <<"e","n","-","U","S","-","A","n","a","N","e","u","r","a","l">>
RequestVoices ==
    { AnaVoice,
      AnaVoice \o <<"+","s">>,
      AnaVoice \o <<"+","1","0","r","+","1","0","p">>,
      AnaVoice \o <<"+","1","5","0","r","-","5","p","+","s">>,
      AnaVoice \o <<"-","7","r","+","1","0","0","p">>,
      FableAlias \o <<"+","s">> }

RequestFormats == {"mp3", "wav", "opus"}
Formats == {"mp3", "aac", "wav", "opus", "flac"}

\* speed multipliers in hundredths
RequestSpeeds == {100, 150}

TheOne(S) == CHOOSE x \in S : TRUE

\* voice_mapping.get(voice, voice)
MappingGet(m, k) ==
    IF \E e \in m : e[1] = k THEN (CHOOSE e \in m : e[1] = k)[2] ELSE k

\* edge_tts_voice.replace('-', '_')
Underscored(s) == [i \in 1..Len(s) |-> IF s[i] = "-" THEN "_" ELSE s[i]]

\* tempfile.NamedTemporaryFile(delete=False, suffix=...): a name not in use
FreshPath(ext) ==
    LET used == {p.n : p \in disk \cup TEMP_FILES}
    IN  [n |-> 1 + (IF used = {} THEN 0
                    ELSE CHOOSE m \in used : \A k \in used : k <= m),
         ext |-> ext]

BlankReq ==
    [voice |-> <<>>, response_format |-> "none", speed |-> 100,
     save_output |-> FALSE, base_voice_name |-> <<>>, edge_tts_voice |-> <<>>,
     rate_value |-> <<>>, pitch_value |-> <<>>,
     temp |-> NoPath, converted |-> NoPath,
     synth |-> "none", ffmpeg |-> "unprobed", out |-> "none", ret |-> NoPath]

BlankPv == [state |-> "none"]
BlankSv == [state |-> "none"]
BlankCl == [state |-> "none"]

Event(e, p) == [ev |-> e, path |-> p]

-----------------------------------------------------------------------------
(* _save_audio_file: a coroutine without an await, so it runs in one step. *)
(* copy_ok and meta_ok are the outcomes of shutil.copy2 and of the         *)
(* metadata write.  The result holds the returned value, the file written  *)
(* to the output directory and the tasks created on the event loop.        *)

\* defaults of _delayed_cleanup(file_path, retries=3, delay=30)
DefaultRetries == 3
DefaultDelay == 30

\* asyncio.create_task(_delayed_cleanup(temp_file_path))
CleanupTask(path) ==
    [kind |-> "cleanup", path |-> path, converted_file |-> FALSE,
     retries |-> DefaultRetries, delay |-> DefaultDelay]
\* asyncio.create_task(_save_audio_file(path, ..., converted_file))
SaveTask(path, converted_file) ==
    [kind |-> "save", path |-> path, converted_file |-> converted_file,
     retries |-> 0, delay |-> 0]

OutputFile(path, edge_tts_voice, ext, tagged) ==
    [voice |-> Underscored(edge_tts_voice), ext |-> ext, src |-> path,
     tagged |-> tagged]

\* variant: the deletion is scheduled after the copy, not in a finally clause
_save_audio_file_leaky(temp_file_path, edge_tts_voice, response_format, save_output, converted_file, copy_ok, meta_ok) ==
    LET ext == IF converted_file THEN response_format ELSE "mp3"
        tags == response_format = "mp3" /\ ~converted_file
    IN  IF ~save_output
        THEN [ret |-> temp_file_path, written |-> {}, spawned |-> <<>>,
              exit |-> "not_saving"]
        ELSE IF ~copy_ok
        THEN [ret |-> NoPath, written |-> {}, spawned |-> <<>>,
              exit |-> "copy_failed"]
        ELSE LET out == OutputFile(temp_file_path, edge_tts_voice, ext, tags /\ meta_ok)
             IN  [ret |-> out, written |-> {out},
                  spawned |-> <<CleanupTask(temp_file_path)>>,
                  exit |-> IF tags /\ ~meta_ok THEN "metadata_failed" ELSE "saved"]

_save_audio_file(temp_file_path, edge_tts_voice, response_format, save_output, converted_file, copy_ok, meta_ok) ==
    LET ext == IF converted_file THEN response_format ELSE "mp3"
        tags == response_format = "mp3" /\ ~converted_file
        \* the finally clause of the try block
        finally == <<CleanupTask(temp_file_path)>>
    IN  IF ~save_output
        THEN [ret |-> temp_file_path, written |-> {}, spawned |-> <<>>,
              exit |-> "not_saving"]
        ELSE IF ~copy_ok
        THEN [ret |-> NoPath, written |-> {}, spawned |-> finally,
              exit |-> "copy_failed"]
        ELSE LET out == OutputFile(temp_file_path, edge_tts_voice, ext, tags /\ meta_ok)
             IN  [ret |-> out, written |-> {out}, spawned |-> finally,
                  exit |-> IF tags /\ ~meta_ok THEN "metadata_failed" ELSE "saved"]

-----------------------------------------------------------------------------
(* generate_speech: asyncio.run(_generate_audio(...)) *)

\* variant: the native-format test names the wrong format
IsNative_wav(response_format) == response_format = "wav"
\* response_format == "mp3"
IsNative(response_format) == response_format = "mp3"

\* variant: a speed multiplier other than 1.0 overrides the written rate
RateValue_speed_first(rate_change, speed) ==
    IF speed # 100 \/ rate_change = {} THEN speed_to_rate(speed)
    ELSE SignedText(TheOne(rate_change)) \o <<"%">>
\* the rate passed to the provider: the parsed rate delta, else the speed
RateValue(rate_change, speed) ==
    IF rate_change # {} THEN SignedText(TheOne(rate_change)) \o <<"%">>
    ELSE speed_to_rate(speed)

\* the pitch passed to the provider
PitchValue(pitch_change) ==
    IF pitch_change # {} THEN SignedText(TheOne(pitch_change)) \o <<"H", "z">>
    ELSE <<"+", "0", "H", "z">>

\* variant: the except clause re-raises without untracking the temp file
Raise_keep_tracked(tracked, r) ==
    /\ TEMP_FILES' = tracked
    /\ req' = [r EXCEPT !.out = "raised"]
    /\ pc' = "returning"
\* the except clause of _generate_audio, entered with the tracked set and
\* the locals as they stand: untrack the mp3 temp file and re-raise, which
\* ends the coroutine
Raise(tracked, r) ==
    /\ TEMP_FILES' = tracked \ {r.temp}
    /\ req' = [r EXCEPT !.out = "raised"]
    /\ pc' = "returning"

\* a return statement of _generate_audio, after the tasks it created
Return(path, created) ==
    /\ req' = [req EXCEPT !.out = "returned", !.ret = path]
    /\ tasks' = created
    /\ pc' = "returning"

\* from the call to the await of communicator.save
generate_speech(voice, response_format, speed) ==
    /\ pc = "idle"
    /\ nreq < MaxRequests
    /\ LET save_output == EndsWithSaveFlag(voice)
           stripped == IF save_output THEN SubSeq(voice, 1, Len(voice) - 2) ELSE voice
           base_voice_name == MappingGet(voice_mapping, stripped)
           parsed == parse_voice_string(base_voice_name)
           temp == FreshPath("mp3")
       IN  /\ req' = [BlankReq EXCEPT
                        !.voice = voice,
                        !.response_format = response_format,
                        !.speed = speed,
                        !.save_output = save_output,
                        !.base_voice_name = base_voice_name,
                        !.edge_tts_voice = parsed.base_voice,
                        !.rate_value = RateValue(parsed.rate_change, speed),
                        !.pitch_value = PitchValue(parsed.pitch_change),
                        !.temp = temp,
                        !.synth = "running",
                        !.out = "running"]
           /\ TEMP_FILES' = TEMP_FILES \cup {temp}
           /\ disk' = disk \cup {temp}
           /\ trace' = <<Event("synthesis_start", temp)>>
    /\ pc' = "synthesis"
    /\ nreq' = nreq + 1
    /\ tasks' = <<>>
    /\ result' = NoPath
    /\ UNCHANGED <<output_dir, voice_mapping, pv, sv, cl>>

\* edge_tts.Communicate(...) or communicator.save raises
SynthesisFails ==
    /\ pc = "synthesis"
    /\ Raise(TEMP_FILES, [req EXCEPT !.synth = "failed"])
    /\ UNCHANGED <<disk, output_dir, voice_mapping, tasks, result, trace, nreq,
                   pv, sv, cl>>

\* communicator.save returns: the mp3 is written
SynthesisSucceeds ==
    /\ pc = "synthesis"
    /\ req' = [req EXCEPT !.synth = "ok"]
    /\ trace' = Append(trace, Event("synthesis_done", req.temp))
    /\ pc' = "synthesized"
    /\ UNCHANGED <<TEMP_FILES, disk, output_dir, voice_mapping, tasks, result,
                   nreq, pv, sv, cl>>

\* response_format == "mp3": return the temp file, creating the task that
\* saves it when the save flag is set
ReturnNative ==
    /\ pc = "synthesized"
    /\ IsNative(req.response_format)
    /\ Return(req.temp,
              IF req.save_output THEN <<SaveTask(req.temp, FALSE)>> ELSE <<>>)
    /\ UNCHANGED <<TEMP_FILES, disk, output_dir, voice_mapping, result, trace,
                   nreq, pv, sv, cl>>

\* variant: a missing ffmpeg is an error of the request
FfmpegUnavailable_raises ==
    /\ pc = "synthesized"
    /\ ~IsNative(req.response_format)
    /\ trace' = Append(trace, Event("ffmpeg_probe", NoPath))
    /\ Raise(TEMP_FILES, [req EXCEPT !.ffmpeg = "no"])
    /\ UNCHANGED <<disk, output_dir, voice_mapping, tasks, result, nreq, pv, sv, cl>>
\* is_ffmpeg_installed() returns False: return the mp3 as it is
FfmpegUnavailable ==
    /\ pc = "synthesized"
    /\ ~IsNative(req.response_format)
    /\ trace' = Append(trace, Event("ffmpeg_probe", NoPath))
    /\ req' = [req EXCEPT !.ffmpeg = "no", !.out = "returned", !.ret = req.temp]
    /\ tasks' = <<>>
    /\ pc' = "returning"
    /\ UNCHANGED <<TEMP_FILES, disk, output_dir, voice_mapping, result, nreq,
                   pv, sv, cl>>

\* variant: the converted file is returned and handed to the save task
\* without ffmpeg having run
PrepareTranscode_skip ==
    /\ pc = "synthesized"
    /\ ~IsNative(req.response_format)
    /\ LET converted == FreshPath(req.response_format)
       IN  /\ disk' = disk \cup {converted}
           /\ TEMP_FILES' = TEMP_FILES \cup {converted}
           /\ trace' = Append(trace, Event("ffmpeg_probe", NoPath))
           /\ req' = [req EXCEPT !.ffmpeg = "yes", !.converted = converted,
                                 !.out = "returned", !.ret = converted]
           /\ tasks' = IF req.save_output THEN <<SaveTask(converted, TRUE)>> ELSE <<>>
           /\ pc' = "returning"
    /\ UNCHANGED <<output_dir, voice_mapping, result, nreq, pv, sv, cl>>
\* is_ffmpeg_installed() returns True: create and track the converted temp
\* file and build the ffmpeg command.  For wav the command list holds None
\* as its bitrate, and joining it for the debug message raises TypeError
\* before ffmpeg is started.
PrepareTranscode ==
    /\ pc = "synthesized"
    /\ ~IsNative(req.response_format)
    /\ LET converted == FreshPath(req.response_format)
           r == [req EXCEPT !.ffmpeg = "yes", !.converted = converted]
       IN  /\ disk' = disk \cup {converted}
           /\ IF req.response_format = "wav"
              THEN /\ Raise(TEMP_FILES \cup {converted}, r)
                   /\ trace' = Append(trace, Event("ffmpeg_probe", NoPath))
              ELSE /\ TEMP_FILES' = TEMP_FILES \cup {converted}
                   /\ req' = r
                   /\ pc' = "ffmpeg"
                   /\ trace' = trace \o <<Event("ffmpeg_probe", NoPath),
                                          Event("ffmpeg_start", converted)>>
    /\ UNCHANGED <<output_dir, voice_mapping, tasks, result, nreq, pv, sv, cl>>

\* subprocess.run(ffmpeg_command, check=True) returns: the converted file is
\* written; return it, creating the task that saves it when the flag is set
FfmpegSucceeds ==
    /\ pc = "ffmpeg"
    /\ trace' = Append(trace, Event("ffmpeg_done", req.converted))
    /\ Return(req.converted,
              IF req.save_output THEN <<SaveTask(req.converted, TRUE)>> ELSE <<>>)
    /\ UNCHANGED <<TEMP_FILES, disk, output_dir, voice_mapping, result, nreq,
                   pv, sv, cl>>

\* subprocess.run raises CalledProcessError, re-raised as RuntimeError
FfmpegFails ==
    /\ pc = "ffmpeg"
    /\ trace' = Append(trace, Event("ffmpeg_failed", req.converted))
    /\ Raise(TEMP_FILES, req)
    /\ UNCHANGED <<disk, output_dir, voice_mapping, tasks, result, nreq, pv, sv, cl>>

\* asyncio.run, after the main coroutine has finished: the loop runs the
\* callbacks already queued, the first step of the save task among them,
\* before it stops.  _save_audio_file has no await, so that step is all of it.
RunSaveTask ==
    /\ pc = "returning"
    /\ tasks # <<>>
    /\ Head(tasks).kind = "save"
    /\ \E copy_ok \in BOOLEAN, meta_ok \in BOOLEAN :
         LET t == Head(tasks)
             r == _save_audio_file(t.path, req.edge_tts_voice, req.response_format,
                                   req.save_output, t.converted_file,
                                   copy_ok, meta_ok)
         IN  /\ output_dir' = output_dir \cup r.written
             /\ tasks' = Tail(tasks) \o r.spawned
             /\ trace' = Append(trace, Event("save", t.path))
    /\ UNCHANGED <<TEMP_FILES, disk, voice_mapping, pc, req, result, nreq, pv, sv, cl>>

\* asyncio.run, once the loop has stopped: every task still pending is
\* cancelled (a _delayed_cleanup task has not started, so none of its body
\* runs) and generate_speech returns the path, or None after an exception
AsyncioRunExit ==
    /\ pc = "returning"
    /\ IF tasks = <<>> THEN TRUE ELSE Head(tasks).kind # "save"
    /\ tasks' = <<>>
    /\ result' = IF req.out = "returned" THEN req.ret ELSE NoPath
    /\ pc' = "idle"
    /\ UNCHANGED <<TEMP_FILES, disk, output_dir, voice_mapping, req, trace, nreq,
                   pv, sv, cl>>

\* the sweep at import: unlink and untrack every tracked path; a path whose
\* unlink fails stays tracked
PurgeOnStartup(tracked) ==
    \E failed \in SUBSET tracked :
        /\ TEMP_FILES' = failed
        /\ disk' = disk \ (tracked \ failed)

\* the process starts again: the module is imported anew, TEMP_FILES is a
\* new empty set, the alias table is loaded, and the sweep runs over it
Restart ==
    /\ pc = "idle"
    /\ nreq > 0
    /\ PurgeOnStartup({})
    /\ voice_mapping' \in VoiceMappings
    /\ req' = BlankReq
    /\ result' = NoPath
    /\ trace' = <<>>
    /\ tasks' = <<>>
    /\ UNCHANGED <<output_dir, pc, nreq, pv, sv, cl>>

Init ==
    /\ TEMP_FILES = {}
    /\ disk = {}
    /\ output_dir = {}
    /\ voice_mapping \in VoiceMappings
    /\ pc = "idle"
    /\ req = BlankReq
    /\ tasks = <<>>
    /\ result = NoPath
    /\ trace = <<>>
    /\ nreq = 0
    /\ pv = BlankPv
    /\ sv = BlankSv
    /\ cl = BlankCl

\* the steps of a call that has started, up to its return
CallStep ==
    \/ SynthesisFails
    \/ SynthesisSucceeds
    \/ ReturnNative
    \/ FfmpegUnavailable
    \/ PrepareTranscode
    \/ FfmpegSucceeds
    \/ FfmpegFails
    \/ RunSaveTask
    \/ AsyncioRunExit

Next ==
    \/ \E voice \in RequestVoices, response_format \in RequestFormats,
          speed \in RequestSpeeds :
         generate_speech(voice, response_format, speed)
    \/ CallStep
    \/ Restart

Spec == Init /\ [][Next]_vars

\* asyncio.run drives the coroutine and the loop to the end of the call;
\* new calls and restarts are up to the caller
FairSpec == Spec /\ WF_vars(CallStep)

-----------------------------------------------------------------------------
(* parse_voice_string called on its own.  The argument is written from its *)
(* parts: a base voice, then an optional rate delta, an optional pitch     *)
(* delta and a rest the pattern does not consume; pv keeps the parts next  *)
(* to the string.                                                          *)

MaxPad == 1

BaseVoices == { AnaVoice, SubSeq(SoniaVoice, 1, 17) }
NonVoices == { FableAlias, <<"e","n","-","u","s","-","A","n","a">> }
DeltaMagnitudes == {0, 5, 99, 100, 250}

RECURSIVE Zeros(_)
Zeros(k) == IF k = 0 THEN <<>> ELSE <<"0">> \o Zeros(k - 1)

\* a delta as it is written: sign, leading zeros, decimal digits, letter
Deltas(letter) ==
    { [text |-> <<>>, written |-> {}] } \cup
    { [text |-> <<sign>> \o Zeros(pad) \o DecimalText(m) \o <<letter>>,
       written |-> {IF sign = "-" THEN 0 - m ELSE m}] :
         sign \in {"+", "-"}, pad \in 0..MaxPad, m \in DeltaMagnitudes }

\* what may follow the deltas; a rest that reads as a delta follows one
Rests == { <<>>, <<"+","s">>, <<"-","1","3","r">> }

BlankParsed == [base_voice |-> <<>>, rate_change |-> {}, pitch_change |-> {}]

ParseInputs ==
    { i \in [state : {"call"}, valid : {TRUE}, base : BaseVoices,
             rate : Deltas("r") \cup Deltas("R"),
             pitch : Deltas("p") \cup Deltas("P"),
             rest : Rests, ret : {BlankParsed}] :
        i.rest = <<"-","1","3","r">> => i.rate.text # <<>> \/ i.pitch.text # <<>> }
    \cup
    [state : {"call"}, valid : {FALSE}, base : NonVoices,
     rate : Deltas("r"), pitch : Deltas("p"), rest : Rests, ret : {BlankParsed}]

\* the string an input stands for
VoiceText(i) == i.base \o i.rate.text \o i.pitch.text \o i.rest

MainAtRest ==
    /\ TEMP_FILES = {}
    /\ disk = {}
    /\ output_dir = {}
    /\ voice_mapping = {}
    /\ pc = "idle"
    /\ req = BlankReq
    /\ tasks = <<>>
    /\ result = NoPath
    /\ trace = <<>>
    /\ nreq = 0

ParseInit ==
    /\ MainAtRest
    /\ pv \in ParseInputs
    /\ sv = BlankSv
    /\ cl = BlankCl

ParseCall ==
    /\ pv.state = "call"
    /\ pv' = [pv EXCEPT !.state = "done",
                        !.ret = parse_voice_string(VoiceText(pv))]
    /\ UNCHANGED <<TEMP_FILES, disk, output_dir, voice_mapping, pc, req, tasks,
                   result, trace, nreq, sv, cl>>

ParseNext == ParseCall

ParseSpec == ParseInit /\ [][ParseNext]_vars

-----------------------------------------------------------------------------
(* _save_audio_file called on its own *)

SavePaths == { [n |-> 1, ext |-> "mp3"], [n |-> 2, ext |-> "opus"] }

SaveInit ==
    /\ MainAtRest
    /\ pv = BlankPv
    /\ cl = BlankCl
    /\ sv \in [state : {"call"}, temp_file_path : SavePaths,
               edge_tts_voice : BaseVoices, response_format : Formats,
               save_output : BOOLEAN, converted_file : BOOLEAN,
               ret : {NoPath}, exit : {"none"}]

SaveCall ==
    /\ sv.state = "call"
    /\ \E copy_ok \in BOOLEAN, meta_ok \in BOOLEAN :
         LET r == _save_audio_file(sv.temp_file_path, sv.edge_tts_voice,
                                   sv.response_format, sv.save_output,
                                   sv.converted_file, copy_ok, meta_ok)
         IN  /\ sv' = [sv EXCEPT !.state = "done", !.ret = r.ret, !.exit = r.exit]
             /\ output_dir' = output_dir \cup r.written
             /\ tasks' = tasks \o r.spawned
    /\ UNCHANGED <<TEMP_FILES, disk, voice_mapping, pc, req, result, trace, nreq,
                   pv, cl>>

SaveNext == SaveCall

SaveSpec == SaveInit /\ [][SaveNext]_vars

-----------------------------------------------------------------------------
(* _delayed_cleanup awaited to its end on a running loop *)

MaxRetries == 3

CleanupPath == [n |-> 1, ext |-> "mp3"]

CleanupInit ==
    /\ TEMP_FILES \in { {}, {CleanupPath} }
    /\ disk \in { {}, {CleanupPath} }
    /\ output_dir = {}
    /\ voice_mapping = {}
    /\ pc = "idle"
    /\ req = BlankReq
    /\ tasks = <<>>
    /\ result = NoPath
    /\ trace = <<>>
    /\ nreq = 0
    /\ pv = BlankPv
    /\ sv = BlankSv
    /\ cl \in [state : {"loop"}, file_path : {CleanupPath},
               retries : 0..MaxRetries, delay : {1, DefaultDelay},
               tracked : {CleanupPath \in TEMP_FILES},
               attempt : {0}, sleeps : {0}, unlinks : {0}, elapsed : {0},
               outcome : {"running"}]

\* for attempt in range(retries): await asyncio.sleep(delay)
CleanupSleep ==
    /\ cl.state = "loop"
    /\ cl.attempt < cl.retries
    /\ cl' = [cl EXCEPT !.state = "unlink", !.sleeps = @ + 1,
                        !.elapsed = @ + cl.delay]
    /\ UNCHANGED <<TEMP_FILES, disk, output_dir, voice_mapping, pc, req, tasks,
                   result, trace, nreq, pv, sv>>

\* Path(file_path).unlink(missing_ok=True) succeeds: untrack and return
CleanupUnlinked ==
    /\ cl.state = "unlink"
    /\ disk' = disk \ {cl.file_path}
    /\ TEMP_FILES' = TEMP_FILES \ {cl.file_path}
    /\ cl' = [cl EXCEPT !.state = "done", !.unlinks = @ + 1,
                        !.outcome = "deleted"]
    /\ UNCHANGED <<output_dir, voice_mapping, pc, req, tasks, result, trace,
                   nreq, pv, sv>>

\* variant: the path is untracked whether or not unlink succeeded
CleanupUnlinkFails_untracks ==
    /\ cl.state = "unlink"
    /\ TEMP_FILES' = TEMP_FILES \ {cl.file_path}
    /\ cl' = [cl EXCEPT !.state = "loop", !.unlinks = @ + 1, !.attempt = @ + 1]
    /\ UNCHANGED <<disk, output_dir, voice_mapping, pc, req, tasks, result,
                   trace, nreq, pv, sv>>
\* unlink raises: the error is logged and the loop goes on
CleanupUnlinkFails ==
    /\ cl.state = "unlink"
    /\ cl' = [cl EXCEPT !.state = "loop", !.unlinks = @ + 1, !.attempt = @ + 1]
    /\ UNCHANGED <<TEMP_FILES, disk, output_dir, voice_mapping, pc, req, tasks,
                   result, trace, nreq, pv, sv>>

\* the loop is exhausted: log the failure and return
CleanupGivesUp ==
    /\ cl.state = "loop"
    /\ cl.attempt >= cl.retries
    /\ cl' = [cl EXCEPT !.state = "done", !.outcome = "gave_up"]
    /\ UNCHANGED <<TEMP_FILES, disk, output_dir, voice_mapping, pc, req, tasks,
                   result, trace, nreq, pv, sv>>

CleanupNext ==
    \/ CleanupSleep
    \/ CleanupUnlinked
    \/ CleanupUnlinkFails
    \/ CleanupGivesUp

\* the loop resumes the coroutine when its sleep is over, and unlink returns
CleanupSpec == CleanupInit /\ [][CleanupNext]_vars /\ WF_vars(CleanupNext)

-----------------------------------------------------------------------------
(* Properties *)

\* a generate_speech call has returned and its locals are those of that call
Returned == pc = "idle" /\ req.out \in {"returned", "raised"}

TranscoderEvents == {"ffmpeg_probe", "ffmpeg_start", "ffmpeg_done", "ffmpeg_failed"}

\* the temp files created by the current request
CreatedByRequest ==
    {p \in disk \cup TEMP_FILES : req.temp # NoPath /\ p.n >= req.temp.n}

\* C3: when the provider call raises, generate_speech returns None and the
\* temp file created for the request is no longer in TEMP_FILES at the return.
C3_ProviderFailureReported ==
    (Returned /\ req.synth = "failed") =>
        /\ result = NoPath
        /\ req.temp \notin TEMP_FILES

C3_Witness ==
    /\ Returned
    /\ req.synth = "failed"
    /\ req.temp \in disk
    /\ result = NoPath

\* C4: a request for the native format "mp3" never runs the ffmpeg probe or
\* the ffmpeg conversion, creates no converted file, and once synthesis has
\* succeeded returns the synthesized temp file.
C4_NativeFormatSkipsTranscoder ==
    req.response_format = "mp3" =>
        /\ \A i \in DOMAIN trace : trace[i].ev \notin TranscoderEvents
        /\ req.converted = NoPath
        /\ CreatedByRequest = {req.temp}
        /\ (Returned /\ req.synth = "ok") => result = req.temp

C4_Witness ==
    /\ Returned
    /\ req.response_format = "mp3"
    /\ req.synth = "ok"
    /\ result = req.temp
    /\ result \in disk

\* C5: for a non-native format, when synthesis succeeded and the ffmpeg probe
\* answered False, the call returns the untouched mp3 temp file, never fails,
\* and creates or tracks no converted temp file.
C5_FallbackWithoutTranscoder ==
    (req.response_format # "mp3" /\ req.synth = "ok" /\ req.ffmpeg = "no") =>
        /\ req.out = "returned"
        /\ req.ret = req.temp
        /\ req.converted = NoPath
        /\ CreatedByRequest = {req.temp}
        /\ \A i \in DOMAIN trace : trace[i].ev \notin {"ffmpeg_start", "ffmpeg_done"}
        /\ Returned => result = req.temp

C5_Witness ==
    /\ Returned
    /\ req.response_format = "wav"
    /\ req.ffmpeg = "no"
    /\ result = req.temp
    /\ result \in disk

\* C6: within a request synthesis completes before the transcoder is probed
\* or started, a started conversion has ended before persistence starts,
\* persistence starts only after synthesis succeeded, and persistence of a
\* converted file starts only after ffmpeg finished writing that file.
C6_PipelineOrder ==
    \A i \in DOMAIN trace :
        /\ trace[i].ev \in TranscoderEvents =>
              \E j \in 1..(i - 1) : trace[j].ev = "synthesis_done"
        /\ trace[i].ev = "save" =>
              /\ \E j \in 1..(i - 1) : trace[j].ev = "synthesis_done"
              /\ req.synth = "ok"
              /\ \A j \in DOMAIN trace : trace[j].ev = "ffmpeg_start" =>
                    \E k \in (j + 1)..(i - 1) : trace[k].ev = "ffmpeg_done"
              /\ trace[i].path # req.temp =>
                    \E j \in 1..(i - 1) : trace[j] = Event("ffmpeg_done", trace[i].path)

C6_Witness ==
    /\ Len(trace) >= 5
    /\ trace[2].ev = "synthesis_done"
    /\ trace[4].ev = "ffmpeg_start"
    /\ trace[5].ev = "ffmpeg_done"
    /\ \E i \in DOMAIN trace : trace[i] = Event("save", req.converted)


\* a written delta as parse_voice_string is to return it: itself when it lies
\* in -99..99, None otherwise
InRangeOnly(written) == {n \in written : 0 - 99 <= n /\ n <= 99}

\* C7: for a voice string that matches the base-voice pattern the parser
\* returns the base voice id and, for rate and pitch each, the written signed
\* integer when it lies in -99..99 and None when it lies outside, whatever
\* the sign and whatever the other delta is.
C7_ParsedDeltas ==
    (pv.state = "done" /\ pv.valid) =>
        /\ pv.ret.base_voice = pv.base
        /\ pv.ret.rate_change = InRangeOnly(pv.rate.written)
        /\ pv.ret.pitch_change = InRangeOnly(pv.pitch.written)

C7_Witness ==
    /\ pv.state = "done"
    /\ pv.valid
    /\ pv.rate.written = {0 - 100}
    /\ pv.pitch.written = {99}
    /\ pv.ret = [base_voice |-> pv.base, rate_change |-> {}, pitch_change |-> {99}]

\* the canonical voice strings of the requests, each with the deltas
\* written in it
VoiceCatalog ==
    { [text |-> AnaVoice, rate |-> {}, pitch |-> {}],
      [text |-> AnaVoice \o <<"+","1","0","r","+","1","0","p">>,
       rate |-> {10}, pitch |-> {10}],
      [text |-> AnaVoice \o <<"+","1","5","0","r","-","5","p">>,
       rate |-> {150}, pitch |-> {0 - 5}],
      [text |-> AnaVoice \o <<"-","7","r","+","1","0","0","p">>,
       rate |-> {0 - 7}, pitch |-> {100}],
      [text |-> SoniaVoice, rate |-> {0 - 5}, pitch |-> {10}],
      [text |-> FableAlias, rate |-> {}, pitch |-> {}] }

\* the deltas written in the alias-resolved voice string of the request
WrittenDeltas == CHOOSE e \in VoiceCatalog : e.text = req.base_voice_name

Percent(n) == SignedText(n) \o <<"%">>
Hertz(n) == SignedText(n) \o <<"H", "z">>

\* C8 as stated: the rate passed to the provider is the rate delta written
\* in the alias-resolved voice string whenever there is one, and the value
\* of speed_to_rate only when there is none; the pitch is the written pitch
\* delta in Hz, or "+0Hz" when there is none.
C8_WrittenDeltasPassed ==
    req.out # "none" =>
        /\ req.rate_value =
              IF WrittenDeltas.rate # {} THEN Percent(TheOne(WrittenDeltas.rate))
              ELSE speed_to_rate(req.speed)
        /\ req.pitch_value =
              IF WrittenDeltas.pitch # {} THEN Hertz(TheOne(WrittenDeltas.pitch))
              ELSE <<"+", "0", "H", "z">>

\* C8, amended: the rate passed to the provider is the written rate delta as
\* a signed percentage whenever one is written and lies in -99..99, and the
\* value of speed_to_rate when none is written or the written one lies
\* outside -99..99; the pitch is the written pitch delta in Hz when it lies
\* in -99..99, and "+0Hz" when none is written or it lies outside.
C8_InRangeDeltasPassed ==
    req.out # "none" =>
        LET rate == InRangeOnly(WrittenDeltas.rate)
            pitch == InRangeOnly(WrittenDeltas.pitch)
        IN  /\ req.rate_value =
                  IF rate # {} THEN Percent(TheOne(rate))
                  ELSE speed_to_rate(req.speed)
            /\ req.pitch_value =
                  IF pitch # {} THEN Hertz(TheOne(pitch))
                  ELSE <<"+", "0", "H", "z">>

C8_Witness ==
    /\ req.out # "none"
    /\ req.speed = 150
    /\ WrittenDeltas.rate = {0 - 5}
    /\ req.voice = FableAlias \o <<"+", "s">>
    /\ req.rate_value = <<"-", "5", "%">>
    /\ req.pitch_value = <<"+", "1", "0", "H", "z">>

\* C9: a call of _save_audio_file with save_output set creates exactly one
\* deletion task for the source path on each of its exits (saved, copy
\* failed, metadata write failed); with save_output not set it returns the
\* source path and creates no task.
C9_CleanupScheduledOnce ==
    sv.state = "done" =>
        IF sv.save_output
        THEN /\ sv.exit \in {"saved", "copy_failed", "metadata_failed"}
             /\ Len(SelectSeq(tasks, LAMBDA t : t.kind = "cleanup"
                                                /\ t.path = sv.temp_file_path)) = 1
             /\ Len(tasks) = 1
        ELSE /\ sv.ret = sv.temp_file_path
             /\ tasks = <<>>

C9_Witness ==
    /\ sv.state = "done"
    /\ sv.save_output
    /\ sv.exit = "copy_failed"
    /\ tasks = <<CleanupTask(sv.temp_file_path)>>

\* what holds at every step of a _delayed_cleanup call
C10_Bounded ==
    /\ cl.unlinks <= cl.retries
    /\ cl.sleeps = cl.unlinks + (IF cl.state = "unlink" THEN 1 ELSE 0)
    /\ cl.elapsed = cl.sleeps * cl.delay
    /\ cl.outcome \in {"running", "deleted", "gave_up"}
    /\ cl.outcome = "deleted" =>
          /\ cl.state = "done"
          /\ cl.attempt = cl.unlinks - 1
          /\ cl.file_path \notin TEMP_FILES
          /\ cl.file_path \notin disk
    /\ cl.outcome # "deleted" =>
          /\ cl.attempt = cl.unlinks
          /\ cl.tracked => cl.file_path \in TEMP_FILES
    /\ cl.outcome = "gave_up" =>
          /\ cl.state = "done"
          /\ cl.unlinks = cl.retries

\* C10: _delayed_cleanup terminates; it makes at most `retries` deletion
\* attempts, each after one wait of `delay`; the first attempt that succeeds
\* is the last, and only then is the path removed from TEMP_FILES; after
\* `retries` failed attempts it returns with the path still tracked and no
\* error raised.
C10_CleanupTerminates == []C10_Bounded /\ <>(cl.state = "done")

C10_Witness ==
    /\ cl.outcome = "gave_up"
    /\ cl.retries = DefaultRetries
    /\ cl.delay = DefaultDelay
    /\ cl.elapsed = DefaultRetries * DefaultDelay
    /\ cl.file_path \in TEMP_FILES

\* the temp paths the requests can create
TempPaths == [n : 1..(2 * MaxRequests), ext : RequestFormats]

\* C1: every temp file a generate_speech call creates is eventually gone
\* from disk and from TEMP_FILES.
C1_TempFilesReaped ==
    \A p \in TempPaths :
        [](p \in disk => <>(p \notin disk /\ p \notin TEMP_FILES))

\* C2: a call whose voice ends in "+s" and that returns a path has run
\* _save_audio_file on the returned path, and a copy of it is in the output
\* directory.
C2_SaveFlagPersists ==
    (Returned /\ req.save_output /\ result # NoPath) =>
        /\ \E i \in DOMAIN trace : trace[i] = Event("save", result)
        /\ \E f \in output_dir : f.src = result

====
